---- MODULE Spec2Model ----
(***************************************************************************)
(* Model of the Plex export scripts (PlexMediaExport.py, plex_tv_shows.py  *)
(* and plex_movie_export.py): the TVMaze lookup, the per-show loop of      *)
(* main, the completeness count, the "TV Shows" and "Movies" worksheets    *)
(* and the saving of the workbook.                                         *)
(*                                                                         *)
(* Python dicts are functions whose DOMAIN is the set of keys; a dict of   *)
(* one-field dicts ({'total_episodes': n}, {'episodes_in_plex': n}) is the *)
(* function from the key to n.  A formatted label f"{a}/{b}" is the tuple  *)
(* <<a, "/", b>>.                                                          *)
(***************************************************************************)
EXTENDS Integers, Sequences, FiniteSets, TLC

\* ---------------------------------------------------------------- bounds
\* Whole runs of PlexMediaExport's main (Spec): libraries of up to MaxShows shows, each TVMaze
\* answer and Plex holding drawn from the small sets RunEpisodeLists and
\* RunPlexSeasons over seasons 0..MaxRunSeason.
MaxShows == 2
MaxRunSeason == 2
\* Runs of main over a one-show library (SpecOneShow): every episode list of
\* up to MaxEpisodes episodes over seasons 0..MaxSeason, every Plex holding
\* of up to MaxLocal episodes in each of the seasons 1..MaxSeason.
MaxSeason == 2
MaxEpisodes == 2
MaxLocal == 2
\* Runs over a library without shows (SpecMovies): every movie library of up
\* to MaxMovies movies.
MaxMovies == 2

Titles == {"Show A", "Obscure Show"}

\* ------------------------------------------------------------- constants
NoValue == "None"
NoFill == "none"
GRAY_FILL == "D3D3D3"
GREEN_FILL == "90EE90"
RED_FILL == "FFB6B6"
THIN_BORDER == "thin"
HEADER_BORDER == "header"

\* ---------------------------------------------------------------- helpers
\* dict.get(k, {}).get(field, 0)
Get(d, k) == IF k \in DOMAIN d THEN d[k] ELSE 0

\* mutant: the number of keys, len(seasons), in place of the largest key
MaxKey_count(d) == Cardinality(DOMAIN d)

\* max(seasons.keys()) for a non-empty dict
MaxKey(d) == CHOOSE m \in DOMAIN d : \A k \in DOMAIN d : k <= m

\* ------------------------------------------------ get_tvmaze_show_info
\* the loop "for episode in episodes" that builds the seasons dict
RECURSIVE CountEpisodes(_, _)
CountEpisodes(episodes, seasons) ==
    IF episodes = <<>> THEN seasons
    ELSE LET season_num == Head(episodes)
             init == IF season_num \in DOMAIN seasons THEN seasons
                     ELSE [k \in DOMAIN seasons \cup {season_num} |->
                              IF k = season_num THEN 0 ELSE seasons[k]]
         IN  CountEpisodes(Tail(episodes),
                           [init EXCEPT ![season_num] = @ + 1])

EmptyDict == [k \in {} |-> 0]

\* What the two HTTP calls give back for one show: the search call raises,
\* answers with a non-200 status, with an empty list, or with a match; the
\* episodes call raises, answers non-200, or answers with the episode list
\* (each episode given by its season number).
EpisodeLists == UNION {[1..n -> 0..MaxSeason] : n \in 0..MaxEpisodes}

\* the small set: no episode, one special, one episode in one season s, one
\* episode in each of the seasons 1..s
RunEpisodeLists ==
    {<<>>, <<0>>}
    \cup {<<s>> : s \in 1..MaxRunSeason}
    \cup {[i \in 1..s |-> i] : s \in 1..MaxRunSeason}

Responses(lists) ==
    {[search |-> s, episodes |-> "none", list |-> <<>>] :
        s \in {"raise", "non200", "empty"}}
    \cup {[search |-> "ok", episodes |-> e, list |-> <<>>] :
        e \in {"raise", "non200"}}
    \cup {[search |-> "ok", episodes |-> "ok", list |-> l] : l \in lists}

\* Result of get_tvmaze_show_info: an exception leaving the function (the
\* requests call raised, or max() was given no key), None, or the info dict.
Raised(exc) == [kind |-> "raise", exc |-> exc]
None == [kind |-> "none"]

get_tvmaze_show_info(resp) ==
    IF resp.search = "raise" THEN Raised("RequestException")
    ELSE IF resp.search = "ok"
    THEN IF resp.episodes = "raise" THEN Raised("RequestException")
         ELSE IF resp.episodes = "ok"
         THEN LET seasons == CountEpisodes(resp.list, EmptyDict)
              IN  IF DOMAIN seasons = {} THEN Raised("ValueError")
                  ELSE [kind |-> "info",
                        total_seasons |-> MaxKey(seasons),
                        seasons |-> seasons]
         ELSE None
    ELSE None

\* ---------------------------------------------------- get_plex_show_info
\* season number -> number of episodes held
PlexSeasons ==
    UNION {[S -> 1..MaxLocal] : S \in SUBSET (1..MaxSeason)}

\* the small set: the seasons 1..k held, one episode in each
RunPlexSeasons == {[s \in 1..k |-> 1] : k \in 0..MaxRunSeason}

\* ------------------------------------------------- count_complete_seasons
\* mutants: a season counts when at least the listed episodes are held;
\* a season counts without the "total_episodes > 0" test
RECURSIVE CountComplete_lenient(_, _)
CountComplete_lenient(show_data, season_num) ==
    IF season_num > show_data.tvmaze_info.total_seasons THEN 0
    ELSE LET plex_episodes == Get(show_data.seasons, season_num)
             total_episodes == Get(show_data.tvmaze_info.seasons, season_num)
         IN  (IF plex_episodes >= total_episodes /\ total_episodes > 0
              THEN 1 ELSE 0)
             + CountComplete_lenient(show_data, season_num + 1)

RECURSIVE CountComplete_unlisted(_, _)
CountComplete_unlisted(show_data, season_num) ==
    IF season_num > show_data.tvmaze_info.total_seasons THEN 0
    ELSE LET plex_episodes == Get(show_data.seasons, season_num)
             total_episodes == Get(show_data.tvmaze_info.seasons, season_num)
         IN  (IF plex_episodes = total_episodes THEN 1 ELSE 0)
             + CountComplete_unlisted(show_data, season_num + 1)

RECURSIVE CountComplete(_, _)
CountComplete(show_data, season_num) ==
    IF season_num > show_data.tvmaze_info.total_seasons THEN 0
    ELSE LET plex_episodes == Get(show_data.seasons, season_num)
             total_episodes == Get(show_data.tvmaze_info.seasons, season_num)
         IN  (IF plex_episodes = total_episodes /\ total_episodes > 0
              THEN 1 ELSE 0)
             + CountComplete(show_data, season_num + 1)

\* mutant: a season counts as soon as an episode of it is held
count_complete_seasons_held(show_data) ==
    Cardinality({s \in 1..show_data.tvmaze_info.total_seasons :
                    Get(show_data.seasons, s) > 0})

count_complete_seasons(show_data) == CountComplete(show_data, 1)

\* ------------------------------------------- apply_borders_to_worksheet
\* A cell as ws.cell() first creates it.
DefaultCell ==
    [value |-> NoValue, fill |-> NoFill, border |-> "none",
     alignment |-> "general", bold |-> FALSE]

\* cells: (row, column) -> cell.  ws.cell(row, column) creates a missing cell.
apply_borders_to_worksheet(cells, max_row, max_col) ==
    LET box == (1..max_row) \X (1..max_col)
    IN  [p \in DOMAIN cells \cup box |->
            LET cell == IF p \in DOMAIN cells THEN cells[p] ELSE DefaultCell
            IN  IF p \in box
                THEN [cell EXCEPT !.border =
                         IF p[1] = 1 THEN HEADER_BORDER ELSE THIN_BORDER]
                ELSE cell]

\* --------------------------------------------- create_tv_shows_worksheet
\* headers = ["Show Title", "Complete Series", "Season 1", ...]
Headers(n) ==
    [col \in 1..(2 + n) |->
        IF col = 1 THEN <<"Show Title">>
        ELSE IF col = 2 THEN <<"Complete Series">>
        ELSE <<"Season", col - 2>>]

HeaderCell(header) ==
    [DefaultCell EXCEPT !.value = header, !.bold = TRUE, !.alignment = "center"]

TitleCell(show) ==
    [DefaultCell EXCEPT !.value = <<show.title>>, !.alignment = "left"]

\* the "Complete Series" cell of one show
SeriesCell(show) ==
    LET complete_seasons == count_complete_seasons(show)
        total_seasons == show.tvmaze_info.total_seasons
    IN  [DefaultCell EXCEPT
            !.value = <<complete_seasons, "/", total_seasons>>,
            !.alignment = "center",
            !.fill = IF complete_seasons = total_seasons THEN GREEN_FILL
                     ELSE IF complete_seasons > 0 THEN RED_FILL
                     ELSE NoFill]

\* the cell of one season column of one show
SeasonCell(show, season_num) ==
    LET total_seasons == show.tvmaze_info.total_seasons
        plex_episodes == Get(show.seasons, season_num)
        total_episodes == Get(show.tvmaze_info.seasons, season_num)
        cell == [DefaultCell EXCEPT !.alignment = "center"]
    IN  IF season_num <= total_seasons
        THEN IF total_episodes > 0
             THEN [cell EXCEPT
                      !.value = <<plex_episodes, "/", total_episodes>>,
                      !.fill = IF plex_episodes = total_episodes THEN GREEN_FILL
                               ELSE IF plex_episodes > 0 THEN RED_FILL
                               ELSE NoFill]
             ELSE cell
        ELSE [cell EXCEPT !.fill = GRAY_FILL]

\* the season columns the row loop visits: range(1, max_seasons + 1)
SeasonColumns(n) == 1..n

\* the cells written by the header loop and the row loop, before the borders
WrittenCells(data, n) ==
    LET headers == Headers(n)
        dom == ({1} \X DOMAIN headers)
               \cup {<<i + 1, c>> : i \in DOMAIN data,
                                     c \in {1, 2} \cup {s + 2 : s \in SeasonColumns(n)}}
    IN  [p \in dom |->
            IF p[1] = 1 THEN HeaderCell(headers[p[2]])
            ELSE IF p[2] = 1 THEN TitleCell(data[p[1] - 1])
            ELSE IF p[2] = 2 THEN SeriesCell(data[p[1] - 1])
            ELSE SeasonCell(data[p[1] - 1], p[2] - 2)]

create_tv_shows_worksheet(data, n) ==
    [title |-> "TV Shows",
     freeze_panes |-> "A2",
     cells |-> apply_borders_to_worksheet(WrittenCells(data, n),
                                          Len(data) + 1, Len(Headers(n)))]

NoSheet == [title |-> "", freeze_panes |-> NoValue, cells |-> << >>]

\* --------------------------------------- create_excel_report (plex_tv_shows)
\* The same values and fills, written without font, alignment or border;
\* freeze_panes is never set.
PlainCell(cell) ==
    [DefaultCell EXCEPT !.value = cell.value, !.fill = cell.fill]

create_excel_report(data, n) ==
    [title |-> "TV Shows",
     freeze_panes |-> NoValue,
     cells |-> [p \in DOMAIN WrittenCells(data, n) |->
                   PlainCell(WrittenCells(data, n)[p])]]

\* ------------------------------------------------------ get_movie_details
LOW_RES_FILL == "FFFFCC"
FOURK_FILL == "E3F4EA"

\* movie titles in str order, and the resolutions Plex reports
MovieTitles == <<"Alien", "Brazil">>
Resolutions == {"sd", "SD", "720", "4k", "UHD", "1080p"}

\* a Plex movie: its title and its first media item ("none" when movie.media
\* is empty, else the videoResolution of the item)
Movies ==
    [title : {MovieTitles[i] : i \in DOMAIN MovieTitles},
     media : Resolutions \cup {"none"}]

\* the keys of movie_info in insertion order: the columns of the DataFrame
Columns ==
    <<"Title", "Video Resolution", "Year", "Studio", "ContentRating", "File",
      "Container">>

movie_info(movie) ==
    [Title |-> movie.title,
     VideoResolution |-> IF movie.media # "none" THEN movie.media ELSE "Unknown",
     Year |-> "year",
     Studio |-> "studio",
     ContentRating |-> "rating",
     File |-> IF movie.media # "none" THEN "file" ELSE "Unknown",
     Container |-> IF movie.media # "none" THEN "container" ELSE "Unknown"]

get_movie_details(movies) == [i \in DOMAIN movies |-> movie_info(movies[i])]

\* df.iloc[row, col] for col = 0..6
Field(info, col) ==
    IF col = 0 THEN info.Title
    ELSE IF col = 1 THEN info.VideoResolution
    ELSE IF col = 2 THEN info.Year
    ELSE IF col = 3 THEN info.Studio
    ELSE IF col = 4 THEN info.ContentRating
    ELSE IF col = 5 THEN info.File
    ELSE info.Container

\* ------------------------------------------------ create_movies_worksheet
\* df.sort_values('Title'): rows by title, equal titles in their first order
TitleRank(t) == CHOOSE i \in DOMAIN MovieTitles : MovieTitles[i] = t

RECURSIVE InsertByTitle(_, _)
InsertByTitle(sorted, info) ==
    IF sorted = <<>> THEN <<info>>
    ELSE IF TitleRank(info.Title) < TitleRank(Head(sorted).Title)
    THEN <<info>> \o sorted
    ELSE <<Head(sorted)>> \o InsertByTitle(Tail(sorted), info)

RECURSIVE SortByTitle(_)
SortByTitle(list) ==
    IF list = <<>> THEN <<>>
    ELSE InsertByTitle(SortByTitle(SubSeq(list, 1, Len(list) - 1)),
                       list[Len(list)])

\* str(...).lower() of a resolution
Lower(text) ==
    IF text = "SD" THEN "sd"
    ELSE IF text = "UHD" THEN "uhd"
    ELSE IF text = "Unknown" THEN "unknown"
    ELSE text

\* The body of create_movies_worksheet is written three times in a row, each
\* time with its own wb.create_sheet("Movies").  The first copy picks the row
\* fill from the low and the 4k lists, the second from the low list only, the
\* third fills nothing.
RowFill(copy, resolution) ==
    IF copy = 1
    THEN IF resolution \in {"sd", "480", "720"} THEN LOW_RES_FILL
         ELSE IF resolution \in {"4k", "uhd"} THEN FOURK_FILL
         ELSE NoFill
    ELSE IF copy = 2
    THEN IF resolution \in {"sd", "480", "720"} THEN LOW_RES_FILL ELSE NoFill
    ELSE NoFill

\* "if col not in [0, 4]" center, else left
LeftColumns == {0, 4}

MovieCell(copy, info, col) ==
    [DefaultCell EXCEPT
        !.value = Field(info, col),
        !.alignment = IF col \notin LeftColumns THEN "center" ELSE "left",
        !.fill = RowFill(copy, Lower(info.VideoResolution))]

\* wb.create_sheet("Movies") names a second and third sheet of that title
\* "Movies1" and "Movies2"
SheetTitle(copy) ==
    IF copy = 1 THEN "Movies" ELSE IF copy = 2 THEN "Movies1" ELSE "Movies2"

MoviesSheet(copy, df) ==
    LET written ==
            [p \in (1..(Len(df) + 1)) \X (1..Len(Columns)) |->
                IF p[1] = 1 THEN HeaderCell(Columns[p[2]])
                ELSE MovieCell(copy, df[p[1] - 1], p[2] - 1)]
    IN  [title |-> SheetTitle(copy),
         freeze_panes |-> "A2",
         cells |-> apply_borders_to_worksheet(written, Len(df) + 1,
                                              Len(Columns))]

\* the sheets one call adds to the workbook (movie_list not empty)
create_movies_worksheet(movie_list) ==
    LET df == SortByTitle(movie_list)
    IN  <<MoviesSheet(1, df), MoviesSheet(2, df), MoviesSheet(3, df)>>

\* ------------------------------------------- df.to_excel (plex_movie_export)
\* The sorted rows under the column names; the styling is the writer's own.
to_excel(df) ==
    [title |-> "Movies",
     freeze_panes |-> NoValue,
     cells |-> [p \in (1..(Len(df) + 1)) \X (1..Len(Columns)) |->
                   [DefaultCell EXCEPT !.value =
                       IF p[1] = 1 THEN Columns[p[2]]
                       ELSE Field(df[p[1] - 1], p[2] - 1)]]]

\* the movie libraries: every list of up to MaxMovies movies, and the small
\* set used in whole runs
MovieLibraries == UNION {[1..n -> Movies] : n \in 0..MaxMovies}

RunMovieLibraries == {<<[title |-> "Alien", media |-> "sd"]>>}

\* ------------------------------------------------------------------ state
\* script      the entry point that runs: "PlexMediaExport", "plex_tv_shows"
\*             or "plex_movie_export"
\* pc          where main is: "connect", "movies", "shows" (the per-show
\*             loop), "export" (plex_movie_export after get_movie_details),
\*             "done" (report built and saved), "exit1" (sys.exit(1)),
\*             "returned" (main returned early), "crashed" (an exception
\*             left main)
\* error       the exception that left main, "none" if none did
\* library     tv_section.all(): the titles of the shows, in order
\* idx         the position of the loop in library
\* shows_data  main's list of {'title', 'seasons', 'tvmaze_info'}
\* max_seasons main's running maximum of total_seasons
\* fetch_count per title, the number of TVMaze search calls issued
\* skipped     the positions for which "Could not find TVMaze info" was printed
\* movie_list  the result of get_movie_details
\* episodes    the episode list of the last TVMaze episodes call
\* wb          the sheets of the saved file, none while no file is written
VARIABLES script, pc, error, library, idx, shows_data, max_seasons,
          fetch_count, skipped, movie_list, episodes, wb

vars == <<script, pc, error, library, idx, shows_data, max_seasons,
          fetch_count, skipped, movie_list, episodes, wb>>

\* the "TV Shows" worksheet of the saved workbook
ws ==
    IF \E k \in DOMAIN wb : wb[k].title = "TV Shows"
    THEN wb[CHOOSE k \in DOMAIN wb : wb[k].title = "TV Shows"]
    ELSE NoSheet

InitWith(scripts, libraries) ==
    /\ script \in scripts
    /\ pc = "connect"
    /\ error = "none"
    /\ library \in libraries
    /\ idx = 1
    /\ shows_data = <<>>
    /\ max_seasons = 0
    /\ fetch_count = [t \in Titles |-> 0]
    /\ skipped = {}
    /\ movie_list = <<>>
    /\ episodes = <<>>
    /\ wb = <<>>

Init ==
    InitWith({"PlexMediaExport"}, UNION {[1..n -> Titles] : n \in 0..MaxShows})

\* every entry point, over a library of at most one show (plex_movie_export
\* reads no show library)
InitScripts ==
    \/ InitWith({"PlexMediaExport", "plex_tv_shows"},
                {<<>>} \cup [1..1 -> Titles])
    \/ InitWith({"plex_movie_export"}, {<<>>})

InitOneShow == InitWith({"PlexMediaExport"}, [1..1 -> Titles])

InitMovies == InitWith({"PlexMediaExport", "plex_movie_export"}, {<<>>})

\* connect_to_plex succeeds
Connect ==
    /\ pc = "connect"
    /\ pc' = IF script = "plex_tv_shows" THEN "shows" ELSE "movies"
    /\ UNCHANGED <<script, error, library, idx, shows_data, max_seasons,
                   fetch_count, skipped, movie_list, episodes, wb>>

\* connect_to_plex: PlexServer raises and the message is printed; then
\* sys.exit(1), but in plex_tv_shows None is returned and main returns
ConnectFails ==
    /\ pc = "connect"
    /\ pc' = IF script = "plex_tv_shows" THEN "returned" ELSE "exit1"
    /\ UNCHANGED <<script, error, library, idx, shows_data, max_seasons,
                   fetch_count, skipped, movie_list, episodes, wb>>

\* movie_list = get_movie_details(movies_section.all())
ProcessMovies(movies) ==
    /\ pc = "movies"
    /\ movie_list' = get_movie_details(movies)
    /\ pc' = IF script = "plex_movie_export" THEN "export" ELSE "shows"
    /\ UNCHANGED <<script, error, library, idx, shows_data, max_seasons,
                   fetch_count, skipped, episodes, wb>>

\* mutant: the search is issued only for a title not searched before
RecordFetch_memo(count, title) ==
    IF count[title] > 0 THEN count ELSE [count EXCEPT ![title] = @ + 1]

\* requests.get(search_url, ...): one more search call for this title
RecordFetch(count, title) == [count EXCEPT ![title] = @ + 1]

\* mutant: max_seasons follows the last show
TrackMax_last(current, total_seasons) == total_seasons

\* "if tvmaze_info['total_seasons'] > max_seasons: max_seasons = ..."
TrackMax(current, total_seasons) ==
    IF total_seasons > current THEN total_seasons ELSE current

\* mutant: "break" instead of "continue" when the lookup returned None
ProcessShow_break(resp, plex_seasons) ==
    /\ pc = "shows"
    /\ idx <= Len(library)
    /\ LET title == library[idx]
           tvmaze_info == get_tvmaze_show_info(resp)
       IN  /\ fetch_count' = [fetch_count EXCEPT ![title] = @ + 1]
           /\ episodes' = resp.list
           /\ IF tvmaze_info.kind = "raise"
              THEN /\ pc' = "crashed"
                   /\ error' = tvmaze_info.exc
                   /\ UNCHANGED <<idx, shows_data, max_seasons, skipped>>
              ELSE IF tvmaze_info = [kind |-> "none"]
              THEN /\ skipped' = skipped \cup {idx}
                   /\ idx' = Len(library) + 1
                   /\ UNCHANGED <<pc, error, shows_data, max_seasons>>
              ELSE /\ max_seasons' =
                        IF tvmaze_info.total_seasons > max_seasons
                        THEN tvmaze_info.total_seasons ELSE max_seasons
                   /\ shows_data' = Append(shows_data,
                        [title |-> title, seasons |-> plex_seasons,
                         tvmaze_info |-> tvmaze_info])
                   /\ idx' = idx + 1
                   /\ UNCHANGED <<pc, error, skipped>>
    /\ UNCHANGED <<script, library, movie_list, wb>>

\* one iteration of "for show in tv_section.all()"
ProcessShow(resp, plex_seasons) ==
    /\ pc = "shows"
    /\ idx <= Len(library)
    /\ LET title == library[idx]
           tvmaze_info == get_tvmaze_show_info(resp)
       IN  /\ fetch_count' = RecordFetch(fetch_count, title)
           /\ episodes' = resp.list
           /\ IF tvmaze_info.kind = "raise"
              THEN /\ pc' = "crashed"
                   /\ error' = tvmaze_info.exc
                   /\ UNCHANGED <<idx, shows_data, max_seasons, skipped>>
              ELSE IF tvmaze_info = None
              THEN /\ skipped' = skipped \cup {idx}
                   /\ idx' = idx + 1                      \* continue
                   /\ UNCHANGED <<pc, error, shows_data, max_seasons>>
              ELSE /\ max_seasons' = TrackMax(max_seasons,
                                              tvmaze_info.total_seasons)
                   /\ shows_data' = Append(shows_data,
                        [title |-> title, seasons |-> plex_seasons,
                         tvmaze_info |-> tvmaze_info])
                   /\ idx' = idx + 1
                   /\ UNCHANGED <<pc, error, skipped>>
    /\ UNCHANGED <<script, library, movie_list, wb>>

\* the sheets of the workbook main has built when it calls wb.save:
\* PlexMediaExport removes the default sheet and creates the Movies and the
\* TV Shows sheets; plex_tv_shows renames the default sheet
BuiltWorkbook ==
    IF script = "PlexMediaExport"
    THEN create_movies_worksheet(movie_list)
         \o <<create_tv_shows_worksheet(shows_data, max_seasons)>>
    ELSE <<create_excel_report(shows_data, max_seasons)>>

\* wb.save(filename): the file holds the sheets, or the open fails and no
\* file is written
SaveWorkbook(sheets, writable) == IF writable THEN sheets ELSE <<>>

\* after the loop: the worksheets are built and the workbook saved.
\* pd.DataFrame([]).sort_values('Title') raises KeyError.
CreateReport(writable) ==
    /\ pc = "shows"
    /\ idx > Len(library)
    /\ IF script = "PlexMediaExport" /\ movie_list = <<>>
       THEN /\ pc' = "crashed"
            /\ error' = "KeyError"
            /\ UNCHANGED wb
       ELSE /\ wb' = SaveWorkbook(BuiltWorkbook, writable)
            /\ pc' = IF writable THEN "done" ELSE "crashed"
            /\ error' = IF writable THEN error ELSE "PermissionError"
    /\ UNCHANGED <<script, library, idx, shows_data, max_seasons, fetch_count,
                   skipped, movie_list, episodes>>

\* plex_movie_export: sort the DataFrame and write it with df.to_excel
ExportMovies(writable) ==
    /\ pc = "export"
    /\ IF movie_list = <<>>
       THEN /\ pc' = "crashed"
            /\ error' = "KeyError"
            /\ UNCHANGED wb
       ELSE /\ wb' = SaveWorkbook(<<to_excel(SortByTitle(movie_list))>>,
                                  writable)
            /\ pc' = IF writable THEN "done" ELSE "crashed"
            /\ error' = IF writable THEN error ELSE "PermissionError"
    /\ UNCHANGED <<script, library, idx, shows_data, max_seasons, fetch_count,
                   skipped, movie_list, episodes>>

Next ==
    \/ Connect
    \/ ConnectFails
    \/ \E movies \in RunMovieLibraries : ProcessMovies(movies)
    \/ \E resp \in Responses(RunEpisodeLists), plex_seasons \in RunPlexSeasons :
          ProcessShow(resp, plex_seasons)
    \/ \E writable \in BOOLEAN : CreateReport(writable)

Spec == Init /\ [][Next]_vars

NextOneShow ==
    \/ Connect
    \/ ConnectFails
    \/ \E movies \in RunMovieLibraries : ProcessMovies(movies)
    \/ \E resp \in Responses(EpisodeLists), plex_seasons \in PlexSeasons :
          ProcessShow(resp, plex_seasons)
    \/ \E writable \in BOOLEAN : CreateReport(writable)

SpecOneShow == InitOneShow /\ [][NextOneShow]_vars

NextMovies ==
    \/ Connect
    \/ ConnectFails
    \/ \E movies \in MovieLibraries : ProcessMovies(movies)
    \/ \E writable \in BOOLEAN : CreateReport(writable)
    \/ \E writable \in BOOLEAN : ExportMovies(writable)

SpecMovies == InitMovies /\ [][NextMovies]_vars

NextScripts ==
    \/ Connect
    \/ ConnectFails
    \/ \E movies \in RunMovieLibraries : ProcessMovies(movies)
    \/ \E resp \in Responses(RunEpisodeLists), plex_seasons \in RunPlexSeasons :
          ProcessShow(resp, plex_seasons)
    \/ \E writable \in BOOLEAN : CreateReport(writable)
    \/ \E writable \in BOOLEAN : ExportMovies(writable)

SpecScripts == InitScripts /\ [][NextScripts]_vars

\* ================================================================ claims
\* How a written cell reads as a status.  A season cell is filled green
\* ("Complete season"), red ("Partial season") or gray ("Season doesn't
\* exist"); a season that has no episode in TVMaze gets no ratio at all
\* ("if total_episodes > 0:  # Season exists in TVMaze"); a ratio without a
\* fill is a season of which nothing is held.
GroupStatus(cell) ==
    IF cell.fill = GREEN_FILL THEN "COMPLETE"
    ELSE IF cell.fill = RED_FILL THEN "PARTIAL"
    ELSE IF cell.fill = GRAY_FILL \/ cell.value = NoValue THEN "NONEXISTENT"
    ELSE "MISSING"

AggregateStatus(cell) ==
    IF cell.fill = GREEN_FILL THEN "COMPLETE"
    ELSE IF cell.fill = RED_FILL THEN "PARTIAL"
    ELSE "MISSING"

Rank(status) ==
    IF status = "COMPLETE" THEN 2 ELSE IF status = "PARTIAL" THEN 1 ELSE 0

\* the rows of the saved sheet: row i + 1 is shows_data[i]
Shows == DOMAIN shows_data
Total(i) == shows_data[i].tvmaze_info.total_seasons
Expected(i, g) == Get(shows_data[i].tvmaze_info.seasons, g)
Local(i, g) == Get(shows_data[i].seasons, g)
SeriesCellOf(i) == ws.cells[<<i + 1, 2>>]
SeasonCellOf(i, g) == ws.cells[<<i + 1, g + 2>>]
CompleteGroups(i) ==
    {g \in 1..Total(i) : GroupStatus(SeasonCellOf(i, g)) = "COMPLETE"}

\* shows_data[i] with the holding of season g set to k episodes
WithLocal(i, g, k) ==
    [shows_data[i] EXCEPT !.seasons =
        [s \in DOMAIN shows_data[i].seasons \cup {g} |->
            IF s = g THEN k ELSE shows_data[i].seasons[s]]]

\* C1: every season 1..total_seasons of a reported show has the status
\* NONEXISTENT when TVMaze lists no episode for it, else COMPLETE when the
\* episodes held are at least the episodes listed, else PARTIAL when some are
\* held, else MISSING.
C1_GroupStatusLenient ==
    pc = "done" =>
        \A i \in Shows : \A g \in 1..Total(i) :
            GroupStatus(SeasonCellOf(i, g)) =
                IF Expected(i, g) = 0 THEN "NONEXISTENT"
                ELSE IF Local(i, g) >= Expected(i, g) THEN "COMPLETE"
                ELSE IF Local(i, g) > 0 THEN "PARTIAL"
                ELSE "MISSING"

\* C2: for a season with listed episodes, holding more episodes never moves
\* the status backward along MISSING -> PARTIAL -> COMPLETE and never lowers
\* the number of complete seasons.
C2_StatusMonotone ==
    pc = "done" =>
        \A i \in Shows : \A g \in 1..Total(i) :
            Expected(i, g) > 0 =>
                \A k \in Local(i, g)..(MaxLocal + 1) :
                    /\ Rank(GroupStatus(SeasonCell(WithLocal(i, g, k), g)))
                          >= Rank(GroupStatus(SeasonCellOf(i, g)))
                    /\ count_complete_seasons(WithLocal(i, g, k))
                          >= count_complete_seasons(shows_data[i])

\* C3: for a show with total_seasons > 0 the aggregate cell is COMPLETE iff
\* all seasons 1..total_seasons are COMPLETE, PARTIAL iff some but not all
\* are, and MISSING iff none is.
C3_AggregateFromCompleteCount ==
    pc = "done" =>
        \A i \in Shows :
            Total(i) > 0 =>
                LET n == Cardinality(CompleteGroups(i))
                    aggregate == AggregateStatus(SeriesCellOf(i))
                IN  /\ (aggregate = "COMPLETE") <=> (n = Total(i))
                    /\ (aggregate = "PARTIAL") <=> (0 < n /\ n < Total(i))
                    /\ (aggregate = "MISSING") <=> (n = 0)

\* C3 witness: a two-season show with one complete season is in the sheet
C3_Witness ==
    /\ pc = "done"
    /\ \E i \in Shows :
          /\ Total(i) = 2
          /\ Cardinality(CompleteGroups(i)) = 1
          /\ AggregateStatus(SeriesCellOf(i)) = "PARTIAL"

\* C4: a show whose total_seasons is 0 is never shown as complete: its
\* aggregate cell carries no highlight.
C4_ZeroTotalNeverComplete ==
    pc = "done" =>
        \A i \in Shows : Total(i) = 0 => SeriesCellOf(i).fill = NoFill

\* C5: a season 1..total_seasons for which TVMaze lists no episode is
\* NONEXISTENT whatever is held of it, and never counts as complete: the
\* count in the aggregate label is at most the number of listed seasons.
C5_UnlistedSeasonNeverCounts ==
    pc = "done" =>
        \A i \in Shows :
            /\ \A g \in 1..Total(i) :
                  Expected(i, g) = 0 =>
                      GroupStatus(SeasonCellOf(i, g)) = "NONEXISTENT"
            /\ SeriesCellOf(i).value[1] <=
                  Cardinality({g \in 1..Total(i) : Expected(i, g) > 0})

\* C5 witness: a season that TVMaze does not list, of which episodes are
\* held, in a show whose listed season is complete
C5_Witness ==
    /\ pc = "done"
    /\ \E i \in Shows : \E g \in 1..Total(i) :
          /\ Expected(i, g) = 0
          /\ Local(i, g) > 0
          /\ SeriesCellOf(i).value[1] = 1

\* the rows of the sheet, and the library positions that were not skipped,
\* in library order
SheetRows == {p[1] : p \in DOMAIN ws.cells}
KeptPositions == (1..Len(library)) \ skipped
Kept ==
    CHOOSE f \in [1..Cardinality(KeptPositions) -> KeptPositions] :
        \A a, b \in DOMAIN f : a < b => f[a] < f[b]

C7_LookupFailureNeverAborts == error # "RequestException"

\* C8: a matched title whose episode list is empty does not fault: no max
\* over an empty set of season numbers is computed.
C8_EmptyEpisodeListNoFault == error # "ValueError"

\* the loop iterations begun so far
Begun == IF pc = "crashed" /\ idx <= Len(library) THEN idx ELSE idx - 1

MaxTotal ==
    IF Shows = {} THEN 0
    ELSE CHOOSE m \in {Total(i) : i \in Shows} : \A i \in Shows : Total(i) <= m

\* C10: the sheet has exactly 2 + (highest total_seasons of the reported
\* shows) columns, every row has a cell in each of them, and the cells of a
\* show beyond its own total_seasons are gray.
C10_GridColumns ==
    pc = "done" =>
        /\ DOMAIN ws.cells = (1..(Len(shows_data) + 1)) \X (1..(2 + MaxTotal))
        /\ \A i \in Shows : \A g \in (Total(i) + 1)..MaxTotal :
              SeasonCellOf(i, g).fill = GRAY_FILL

\* C10 witness: two reported shows with different total_seasons, the
\* shorter one with a gray cell
C10_Witness ==
    /\ pc = "done"
    /\ \E i, j \in Shows :
          /\ Total(i) < Total(j)
          /\ Total(j) = MaxTotal
          /\ SeasonCellOf(i, MaxTotal).fill = GRAY_FILL

\* C11: a season cell carries the nonexistent (gray) class exactly when its
\* season does not exist for the show: beyond the show's total_seasons, or
\* inside 1..total_seasons without an episode in TVMaze.
C11_GrayIffNonexistent ==
    pc = "done" =>
        \A i \in Shows : \A g \in 1..max_seasons :
            (SeasonCellOf(i, g).fill = GRAY_FILL)
                <=> (g > Total(i) \/ Expected(i, g) = 0)

\* the sheets of the saved file that hold the movie list
MovieSheets == {k \in DOMAIN wb : wb[k].title \in {SheetTitle(c) : c \in 1..3}}

\* C12: the file saved by PlexMediaExport holds one sheet per library section:
\* exactly one sheet of the movie list and exactly one of the show list.
C12_OneSheetPerSection ==
    (pc = "done" /\ script = "PlexMediaExport") =>
        /\ Cardinality(MovieSheets) = 1
        /\ Len(wb) = 2

\* the body rows of a sheet, and the highlight a row is to carry for the
\* resolution in its "Video Resolution" column
BodyRows(sheet) == {p[1] : p \in DOMAIN sheet.cells} \ {1}
TierFill(resolution) ==
    IF Lower(resolution) \in {"sd", "480", "720"} THEN LOW_RES_FILL
    ELSE IF Lower(resolution) \in {"4k", "uhd"} THEN FOURK_FILL
    ELSE NoFill

\* C13: in a sheet of the movie list every cell of a row carries the
\* low-quality class when the row's resolution, read case-insensitively, is a
\* low tier, the high-quality class when it is a high tier, and no highlight
\* otherwise.
C13_RowHighlightByTier ==
    (pc = "done" /\ script = "PlexMediaExport") =>
        \A k \in MovieSheets : \A r \in BodyRows(wb[k]) :
            \A c \in 1..Len(Columns) :
                wb[k].cells[<<r, c>>].fill =
                    TierFill(wb[k].cells[<<r, 2>>].value)

\* the 1-based sheet column of a named attribute
ColumnOf(name) == CHOOSE c \in 1..Len(Columns) : Columns[c] = name

\* C14: in a sheet of the movie list every body cell of the Title column and
\* of the File column is left-aligned, and every body cell of every other
\* column is centered.
C14_TitleAndFileLeftAligned ==
    (pc = "done" /\ script = "PlexMediaExport") =>
        \A k \in MovieSheets : \A r \in BodyRows(wb[k]) :
            \A c \in 1..Len(Columns) :
                wb[k].cells[<<r, c>>].alignment =
                    IF c \in {ColumnOf("Title"), ColumnOf("File")}
                    THEN "left" ELSE "center"

\* the exit status of the process: sys.exit(1) and an uncaught exception end
\* it with status 1, a return from main with status 0
ExitStatus == IF pc \in {"exit1", "crashed"} THEN 1 ELSE 0

ConnectionFailed == pc \in {"exit1", "returned"}

\* C15: when the connection to the server fails, whichever the entry point,
\* the run ends with a non-zero exit status before any item is processed, any
\* catalog lookup is made or any file is written.
C15_ConnectFailureAborts ==
    ConnectionFailed =>
        /\ ExitStatus # 0
        /\ idx = 1 /\ shows_data = <<>> /\ movie_list = <<>>
        /\ \A t \in Titles : fetch_count[t] = 0
        /\ wb = <<>>

\* the run found the destination not writable
NotWritable == pc = "crashed" /\ error = "PermissionError"

\* C16: when the destination is not writable the run fails before the heavy
\* processing starts: no show has been processed, no catalog lookup has been
\* issued, and no file is written.
C16_WritabilityCheckedFirst ==
    NotWritable =>
        /\ idx = 1
        /\ \A t \in Titles : fetch_count[t] = 0
        /\ wb = <<>>

\* the latest catalog lookup returned an info dict, which is the last entry of
\* shows_data; episodes is the episode list that lookup was answered with
LastLookupMatched ==
    /\ idx > 1
    /\ (idx - 1) \notin skipped
    /\ error \notin {"RequestException", "ValueError"}
    /\ shows_data # <<>>
LastInfo == shows_data[Len(shows_data)].tvmaze_info
Occurrences(g) == Cardinality({i \in 1..Len(episodes) : episodes[i] = g})
Observed == {episodes[i] : i \in 1..Len(episodes)}
RECURSIVE SumOver(_, _)
SumOver(d, keys) ==
    IF keys = {} THEN 0
    ELSE LET k == CHOOSE x \in keys : TRUE
         IN  d[k] + SumOver(d, keys \ {k})

\* C17: when a lookup matches and its episode list is not empty, the seasons
\* mapping of the result has exactly the season numbers of the list as keys,
\* each with the number of episodes of the list in that season, so the counts
\* add up to the length of the list; total_seasons is the largest season
\* number of the list.
C17_EpisodeAggregation ==
    (LastLookupMatched /\ episodes # <<>>) =>
        /\ DOMAIN LastInfo.seasons = Observed
        /\ \A g \in Observed : LastInfo.seasons[g] = Occurrences(g)
        /\ SumOver(LastInfo.seasons, DOMAIN LastInfo.seasons) = Len(episodes)
        /\ LastInfo.total_seasons \in Observed
        /\ \A g \in Observed : g <= LastInfo.total_seasons

\* two episodes, both of season 2: season 1 is not a key
C17_Witness ==
    /\ LastLookupMatched
    /\ episodes = <<2, 2>>
    /\ LastInfo.seasons[2] = 2
    /\ LastInfo.total_seasons = 2

\* C18: in every sheet written by a script that builds its grid itself
\* (PlexMediaExport, plex_tv_shows) every cell of row 1 carries the header
\* border, every cell of a later row the body border, and the sheet is frozen
\* below row 1.
C18_BordersAndFreeze ==
    (pc = "done" /\ script \in {"PlexMediaExport", "plex_tv_shows"}) =>
        \A k \in DOMAIN wb :
            /\ wb[k].freeze_panes = "A2"
            /\ \A p \in DOMAIN wb[k].cells :
                  wb[k].cells[p].border =
                      IF p[1] = 1 THEN HEADER_BORDER ELSE THIN_BORDER

\* the number in front of the "/" of a row's aggregate label, and the season
\* cells of the row, over all the season columns of the sheet, that are green
LabelCount(i) == SeriesCellOf(i).value[1]
GreenCells(i) == {g \in 1..max_seasons : SeasonCellOf(i, g).fill = GREEN_FILL}

\* C19: in every row of the show sheet the number N of the aggregate label
\* "N/T" is the number of season cells of the row that are green, with
\* 0 <= N <= T, the sheet having at least as many season columns as the show
\* has seasons.
C19_LabelCountsGreenCells ==
    pc = "done" =>
        \A i \in Shows :
            /\ max_seasons >= Total(i)
            /\ LabelCount(i) = Cardinality(GreenCells(i))
            /\ 0 <= LabelCount(i) /\ LabelCount(i) <= Total(i)
            /\ SeriesCellOf(i).value[3] = Total(i)

\* C19 witness: a row with one green cell out of two seasons, and a row with
\* a green cell and fewer seasons than the sheet has columns
C19_Witness ==
    /\ pc = "done"
    /\ \E i, j \in Shows :
          /\ Total(i) = 2 /\ LabelCount(i) = 1
          /\ Total(j) < max_seasons /\ LabelCount(j) = 1
====
